---------------------------- MODULE Spec2Model ----------------------------
(***************************************************************************)
(* Model of the prime-gaps analysis scripts:                               *)
(*   src/src/data_fetch.py    sequence fetch with fallback, sieve,         *)
(*                            residue-class filter                         *)
(*   src/run_analysis.py      the end-to-end pipeline (timestamped CSVs)   *)
(*   src/generate_figures.py  figure regeneration from the processed CSVs  *)
(***************************************************************************)
EXTENDS Integers, Sequences, FiniteSets, TLC

VARIABLES
    \* sieve_of_eratosthenes: argument, whether it returned, returned list
    limit, sieveDone, sieveOut,
    \* primes_in_progression: arguments, whether it returned, returned list
    primes, a, q, progDone, progOut,
    \* fetch_oeis_sequence: arguments, what requests.get did, whether the
    \* call returned, returned list
    seq_id, max_terms, response, fetchDone, fetchOut,
    \* run_analysis.main: position in the run, the wall clock, runs started,
    \* the locals timestamp, gaps and starts
    pc, now, runs, timestamp, gaps, starts,
    \* the files of data/raw and data/processed, by name: record_gaps_*.csv,
    \* rebounds_*.csv (name -> time of the run that wrote it) and
    \* progression_slopes_*.csv (name -> that time and the table written)
    rawFiles, reboundFiles, slopeFiles,
    \* generate_figures.main: what its last call did
    lastFig

sieveVars == <<limit, sieveDone, sieveOut>>
progVars  == <<primes, a, q, progDone, progOut>>
fetchVars == <<seq_id, max_terms, response, fetchDone, fetchOut>>
runVars   == <<pc, now, runs, timestamp, gaps, starts>>
fileVars  == <<rawFiles, reboundFiles, slopeFiles>>
vars == <<sieveVars, progVars, fetchVars, runVars, fileVars, lastFig>>

(***************************************************************************)
(* Bounds of the model.                                                    *)
(***************************************************************************)
MaxLimit == 64      \* largest sieve limit explored
MinLimit == 3       \* limits down to -MinLimit are explored
MaxPrimesLen == 3   \* longest input list of primes_in_progression
MaxElem == 5        \* list elements range over -2 .. MaxElem
MaxQ == 3           \* moduli 1 .. MaxQ, residues -1 .. MaxQ
MaxLines == 3       \* most lines in a response body
MaxTerms == 3       \* max_terms ranges over 0 .. MaxTerms
MaxRuns == 2        \* pipeline runs started in one behaviour

(***************************************************************************)
(* Generic helpers.                                                        *)
(***************************************************************************)
SeqsUpTo(S, n) == UNION { [1..k -> S] : k \in 0..n }

Range(s) == { s[i] : i \in DOMAIN s }

\* the least element of a non-empty set of integers
Least(S) == CHOOSE x \in S : \A y \in S : x <= y

(***************************************************************************)
(* sieve_of_eratosthenes (data_fetch.py 54-75).                             *)
(* The numpy boolean array is a function 0..limit -> BOOLEAN.              *)
(***************************************************************************)
\* int(limit**0.5)
FloorSqrt(n) == CHOOSE r \in 0..n : r * r <= n /\ (r + 1) * (r + 1) > n

\* sieve[start::step] = False
ClearSlice(sieve, start, step) ==
    [n \in DOMAIN sieve |->
        IF n >= start /\ (n - start) % step = 0 THEN FALSE ELSE sieve[n]]

\* sieve[:stop] = False
ClearPrefix(sieve, stop) ==
    [n \in DOMAIN sieve |-> IF n < stop THEN FALSE ELSE sieve[n]]

\* the stop of range(3, int(limit**0.5) + 1, 2), dropping the + 1
LoopStopNoPlusOne(lim) == FloorSqrt(lim)

\* the stop of range(3, int(limit**0.5) + 1, 2)
LoopStop(lim) == FloorSqrt(lim) + 1

\* for i in range(i, stop, 2): if sieve[i]: sieve[i*i::i] = False
RECURSIVE SieveLoop(_, _, _)
SieveLoop(sieve, i, stop) ==
    IF i >= stop THEN sieve
    ELSE SieveLoop(IF sieve[i] THEN ClearSlice(sieve, i * i, i) ELSE sieve,
                   i + 2, stop)

\* list(np.where(sieve)[0]): the indices holding True, ascending
RECURSIVE WhereFrom(_, _, _)
WhereFrom(sieve, n, top) ==
    IF n > top THEN <<>>
    ELSE (IF sieve[n] THEN <<n>> ELSE <<>>) \o WhereFrom(sieve, n + 1, top)

sieve_of_eratosthenes(lim) ==
    IF lim < 2 THEN <<>>
    ELSE LET s0 == [n \in 0..lim |-> TRUE]
             s1 == ClearPrefix(s0, 2)
             s2 == ClearSlice(s1, 4, 2)
             s3 == SieveLoop(s2, 3, LoopStop(lim))
         IN  WhereFrom(s3, 0, lim)

(***************************************************************************)
(* primes_in_progression (data_fetch.py 86-98).                            *)
(***************************************************************************)
\* the comprehension's test, comparing the quotient instead of the remainder
InClassDiv(p, res, m) == p \div m = res

\* the comprehension's test  p % q == a  (Python's % with q >= 1 is the
\* floored remainder, as is TLA+'s)
InClass(p, res, m) == p % m = res

\* [p for p in primes if p % q == a], element by element
RECURSIVE primes_in_progression(_, _, _)
primes_in_progression(ps, res, m) ==
    IF ps = <<>> THEN <<>>
    ELSE (IF InClass(Head(ps), res, m) THEN <<Head(ps)>> ELSE <<>>)
         \o primes_in_progression(Tail(ps), res, m)

(***************************************************************************)
(* fetch_oeis_sequence and get_fallback_sequence (data_fetch.py 11-52).    *)
(* A character of the response is its code point ord(c), a line a sequence *)
(* of characters, response.text a sequence of lines (the text cut at its   *)
(* '\n').  str.isspace() and int() range over all of Unicode, which code   *)
(* points cover and string literals do not.                                *)
(* A response is what requests.get(url, timeout=10) did: exc is the        *)
(* exception it raised ("none": it returned), status and text are the      *)
(* returned response's status_code and text.                               *)
(***************************************************************************)
\* the code points of the digit zero of every decimal-digit run of Unicode
\* (category Nd, Unicode 14.0): each is followed by its digits one to nine
DigitZeros ==
    {48, 1632, 1776, 1984, 2406, 2534, 2662, 2790, 2918, 3046, 3174, 3302,
     3430, 3558, 3664, 3792, 3872, 4160, 4240, 6112, 6160, 6470, 6608, 6784,
     6800, 6992, 7088, 7232, 7248, 42528, 43216, 43264, 43472, 43504, 43600,
     44016, 65296, 66720, 68912, 69734, 69872, 69942, 70096, 70384, 70736,
     70864, 71248, 71360, 71472, 71904, 72016, 72784, 73040, 73120, 92768,
     92864, 93008, 120782, 120792, 120802, 120812, 120822, 123200, 123632,
     125264, 130032}

\* the characters int() reads as a digit: '0'..'9' and every other decimal
\* digit of Unicode
Digits == UNION { z..(z + 9) : z \in DigitZeros }

\* the value int() gives a digit: its place in its run
DigitVal(c) == c - (CHOOSE z \in DigitZeros : c \in z..(z + 9))

\* str.isspace() of one character, as strip() and split() use it:
\* '\t' '\n' '\v' '\f' '\r', '\x1c'..'\x1f', ' ', '\x85', '\xa0', U+1680,
\* U+2000..U+200A, U+2028, U+2029, U+202F, U+205F, U+3000 ('\n' is the line
\* separator and never inside a line)
IsSpace(c) ==
    \/ c \in 9..13
    \/ c \in 28..32
    \/ c \in {133, 160, 5760}
    \/ c \in 8192..8202
    \/ c \in {8232, 8233, 8239, 8287, 12288}

\* str.lstrip() / str.rstrip() of one line
RECURSIVE LStrip(_)
LStrip(line) ==
    IF line # <<>> /\ IsSpace(Head(line)) THEN LStrip(Tail(line)) ELSE line

RECURSIVE RStrip(_)
RStrip(line) ==
    IF line # <<>> /\ IsSpace(line[Len(line)])
    THEN RStrip(SubSeq(line, 1, Len(line) - 1)) ELSE line

IsBlank(line) == \A i \in 1..Len(line) : IsSpace(line[i])

RECURSIVE DropLeadingBlank(_)
DropLeadingBlank(lines) ==
    IF lines # <<>> /\ IsBlank(Head(lines)) THEN DropLeadingBlank(Tail(lines))
    ELSE lines

RECURSIVE DropTrailingBlank(_)
DropTrailingBlank(lines) ==
    IF lines # <<>> /\ IsBlank(lines[Len(lines)])
    THEN DropTrailingBlank(SubSeq(lines, 1, Len(lines) - 1)) ELSE lines

\* response.text.strip().split('\n'): '\n' is whitespace, so strip() removes
\* the blank lines at both ends and the outer whitespace of the first and the
\* last line left; ''.split('\n') is ['']
StripSplit(text) ==
    LET kept == DropTrailingBlank(DropLeadingBlank(text))
    IN  IF kept = <<>> THEN << <<>> >>
        ELSE [i \in 1..Len(kept) |->
                LET l1 == IF i = 1 THEN LStrip(kept[i]) ELSE kept[i]
                IN  IF i = Len(kept) THEN RStrip(l1) ELSE l1]

\* line.split(): the maximal runs of non-whitespace characters.  From
\* position i on: skip the whitespace, take the characters up to the next
\* whitespace as one field, go on behind it
RECURSIVE SplitFrom(_, _)
SplitFrom(line, i) ==
    LET rest == { j \in i..Len(line) : ~IsSpace(line[j]) }
    IN  IF rest = {} THEN <<>>
        ELSE LET from == Least(rest)
                 stops == { j \in from..Len(line) : IsSpace(line[j]) }
                 to == IF stops = {} THEN Len(line) + 1 ELSE Least(stops)
             IN  <<SubSeq(line, from, to - 1)>> \o SplitFrom(line, to)

Split(line) == SplitFrom(line, 1)

\* line.startswith('#')
StartsWithHash(line) == line # <<>> /\ Head(line) = 35

\* sys.get_int_max_str_digits() as CPython sets it: int(s) raises ValueError
\* for a string of more digits (signs and underscores are not counted,
\* leading zeros are)
IntMaxStrDigits == 4300

\* int(s) succeeds: an optional sign '+' or '-', then digits, with single
\* underscores allowed between digits ('1_6' is 16; '_1', '1_', '1__6' raise),
\* and no more than IntMaxStrDigits digits
Unsigned(tok) ==
    IF tok # <<>> /\ Head(tok) \in {43, 45} THEN Tail(tok) ELSE tok

IsIntLiteral(tok) ==
    LET body == Unsigned(tok)
    IN  /\ body # <<>>
        /\ \A i \in 1..Len(body) : body[i] \in Digits \cup {95}
        /\ body[1] \in Digits
        /\ body[Len(body)] \in Digits
        /\ \A i \in 1..(Len(body) - 1) : ~(body[i] = 95 /\ body[i + 1] = 95)
        /\ Cardinality({i \in 1..Len(body) : body[i] \in Digits})
              <= IntMaxStrDigits

RECURSIVE DigitsValue(_, _)
DigitsValue(ds, acc) ==
    IF ds = <<>> THEN acc
    ELSE IF Head(ds) = 95 THEN DigitsValue(Tail(ds), acc)
    ELSE DigitsValue(Tail(ds), 10 * acc + DigitVal(Head(ds)))

\* int(s) for a literal s
IntValue(tok) ==
    IF tok # <<>> /\ Head(tok) = 45 THEN 0 - DigitsValue(Unsigned(tok), 0)
    ELSE DigitsValue(Unsigned(tok), 0)

RECURSIVE ParseLines(_, _, _)

\* except ValueError: continue
AfterValueError(rest, data, maxTerms) == ParseLines(rest, data, maxTerms)

\* the for loop over the lines (data_fetch.py 27-38); data is the list
\* collected so far
ParseLines(lines, data, maxTerms) ==
    IF lines = <<>> THEN data
    ELSE LET line == Head(lines)
             rest == Tail(lines)
             parts == Split(line)
         IN  IF StartsWithHash(line) THEN ParseLines(rest, data, maxTerms)
             ELSE IF Len(parts) >= 2
             THEN IF IsIntLiteral(parts[2])
                  THEN LET appended == Append(data, IntValue(parts[2]))
                       IN  IF Len(appended) >= maxTerms THEN appended
                           ELSE ParseLines(rest, appended, maxTerms)
                  ELSE AfterValueError(rest, data, maxTerms)
             ELSE ParseLines(rest, data, maxTerms)

FallbackGaps ==
    <<1, 2, 4, 6, 8, 14, 18, 20, 22, 34, 36, 44, 52, 72, 86, 96, 112, 114, 118, 132>>

FallbackStarts ==
    <<2, 3, 7, 23, 89, 113, 523, 887, 1129, 1327, 9551, 15683, 19609, 31397, 155921>>

\* max_terms is not used
get_fallback_sequence(id, maxTerms) ==
    IF id = 5250 THEN FallbackGaps
    ELSE IF id = 101 THEN FallbackStarts
    ELSE <<>>

\* response.raise_for_status() raises HTTPError: requests raises for the
\* client-error and the server-error statuses, 400 .. 599, and for no other
RaiseForStatus(status) == status >= 400 /\ status < 600

\* the try block raises: requests.get raised, or raise_for_status did
TryRaises(resp) == resp.exc # "none" \/ RaiseForStatus(resp.status)

fetch_oeis_sequence(id, maxTerms, resp) ==
    IF TryRaises(resp) THEN get_fallback_sequence(id, maxTerms)
    ELSE ParseLines(StripSplit(resp.text), <<>>, maxTerms)

(***************************************************************************)
(* Inputs of the fetch: sample lines, bodies, responses.                   *)
(***************************************************************************)
LineComment == <<35, 32, 55>>                   \* "# 7"
LineData    == <<49, 32, 52>>                   \* "1 4"
LineSigned  == <<50, 32, 45, 49, 54>>           \* "2 -16"
LineNonInt  == <<51, 32, 120>>                  \* "3 x"
LineShort   == <<53>>                           \* "5"
LineIndent  == <<11, 35, 32, 57>>               \* '\v', then "# 9"
LineBlank   == <<160, 28, 13>>                  \* '\xa0', '\x1c', CR (a CR LF end)
LineTabCr   == <<54, 9, 56, 13>>                \* "6", tab, "8", CR
LineUnder   == <<55, 32, 49, 95, 54>>           \* "7 1_6"
LineUnicode == <<56, 8195, 1635, 1632>>         \* "8", U+2003, Arabic-Indic 3 0

\* "9 " and then "1" repeated IntMaxStrDigits + 1 times: an integer of one
\* digit more than int() takes
LineHuge ==
    [i \in 1..(IntMaxStrDigits + 3) |->
        IF i = 1 THEN 57 ELSE IF i = 2 THEN 32 ELSE 49]

SampleLines ==
    {LineComment, LineData, LineSigned, LineNonInt, LineShort, LineIndent,
     LineBlank, LineTabCr, LineUnder, LineUnicode}

\* the bodies that hold LineHuge, alone or among data lines
HugeTexts ==
    { t \in SeqsUpTo({LineData, LineHuge, LineSigned}, MaxLines) :
        LineHuge \in Range(t) }

Texts == SeqsUpTo(SampleLines, MaxLines) \cup HugeTexts

Statuses == {200, 304, 404, 503}

SeqIds == {5250, 101, 45}

\* a 304 (Not Modified) answer carries no body
Responses ==
    [exc : {"ConnectionError", "Timeout"}, status : {0}, text : {<<>>}]
    \cup [exc : {"none"}, status : Statuses \ {304}, text : Texts]
    \cup [exc : {"none"}, status : {304}, text : {<<>>}]

(***************************************************************************)
(* Timestamps and file names (run_analysis.py 45, 70, 78, 92;               *)
(* generate_figures.py 31-32).  A time is a record of the six fields of    *)
(* datetime.now(); a name is the part of the path that differs between the  *)
(* files one glob matches: the timestamp and the ".csv" after it.  Its     *)
(* characters come from a fixed ASCII alphabet and are one-character       *)
(* strings; CharCode gives their code points.                              *)
(***************************************************************************)
Clock ==
    [year : {2024}, month : {9, 10}, day : {9}, hour : {9, 10},
     minute : {0}, second : {0}]

\* datetime < datetime: field by field, the year first
TimeFields(t) == <<t.year, t.month, t.day, t.hour, t.minute, t.second>>

RECURSIVE FieldsBefore(_, _)
FieldsBefore(f, g) ==
    IF f = <<>> THEN FALSE
    ELSE IF Head(f) # Head(g) THEN Head(f) < Head(g)
    ELSE FieldsBefore(Tail(f), Tail(g))

TimeBefore(s, t) == FieldsBefore(TimeFields(s), TimeFields(t))

DigitChar(d) ==
    CASE d = 0 -> "0" [] d = 1 -> "1" [] d = 2 -> "2" [] d = 3 -> "3"
      [] d = 4 -> "4" [] d = 5 -> "5" [] d = 6 -> "6" [] d = 7 -> "7"
      [] d = 8 -> "8" [] d = 9 -> "9"

\* a field printed without its leading zero
Pad2None(n) ==
    IF n < 10 THEN <<DigitChar(n)>> ELSE <<DigitChar(n \div 10), DigitChar(n % 10)>>

\* %m, %d, %H, %M, %S: two digits, zero padded
Pad2(n) == <<DigitChar(n \div 10), DigitChar(n % 10)>>

\* %Y (years 1000 .. 9999)
Pad4(n) ==
    <<DigitChar(n \div 1000), DigitChar((n \div 100) % 10),
      DigitChar((n \div 10) % 10), DigitChar(n % 10)>>

\* strftime with the month, day and hour not zero padded ("%Y%-m%-d_%-H%M%S")
strftimeUnpadded(t) ==
    Pad4(t.year) \o Pad2None(t.month) \o Pad2None(t.day) \o <<"_">>
        \o Pad2None(t.hour) \o Pad2(t.minute) \o Pad2(t.second)

\* datetime.now().strftime("%Y%m%d_%H%M%S")
strftime(t) ==
    Pad4(t.year) \o Pad2(t.month) \o Pad2(t.day) \o <<"_">>
        \o Pad2(t.hour) \o Pad2(t.minute) \o Pad2(t.second)

\* f'data/processed/rebounds_{timestamp}.csv' and the like
FileName(stamp) == stamp \o <<".", "c", "s", "v">>

\* ord(c) for the characters of a name
CharCode(c) ==
    CASE (\E d \in 0..9 : DigitChar(d) = c)
            -> 48 + (CHOOSE d \in 0..9 : DigitChar(d) = c)
      [] c = "." -> 46 [] c = "_" -> 95
      [] c = "c" -> 99 [] c = "s" -> 115 [] c = "v" -> 118

\* str < str: by code point, a proper prefix first
RECURSIVE LexLess(_, _)
LexLess(s, t) ==
    IF t = <<>> THEN FALSE
    ELSE IF s = <<>> THEN TRUE
    ELSE IF CharCode(Head(s)) # CharCode(Head(t))
         THEN CharCode(Head(s)) < CharCode(Head(t))
         ELSE LexLess(Tail(s), Tail(t))

\* sorted(glob.glob(...)) over the names of a directory
RECURSIVE Sorted(_)
Sorted(names) ==
    IF names = {} THEN <<>>
    ELSE LET least == CHOOSE x \in names : \A y \in names \ {x} : LexLess(x, y)
         IN  <<least>> \o Sorted(names \ {least})

\* open(name, 'w') and write: the file is created or replaced
WriteFile(files, name, content) ==
    [n \in DOMAIN files \cup {name} |-> IF n = name THEN content ELSE files[n]]

NoFiles == [n \in {} |-> 0]

(***************************************************************************)
(* The slopes table (run_analysis.py 91-92; generate_figures.py 43):       *)
(* one row per progression a mod q, with its slope beta.  A table is a      *)
(* function from the (a, q) pairs it has a row for to beta; it always has   *)
(* the columns q and beta.  beta is a float in the code and an integer      *)
(* number of units here; a mean is kept as its sum and its count.           *)
(***************************************************************************)
Betas == {-1, 1}

Progressions == {<<1, 3>>, <<2, 3>>, <<1, 4>>, <<3, 4>>,
                 <<1, 5>>, <<2, 5>>, <<3, 5>>, <<4, 5>>}

Tables ==
    UNION { [P -> Betas] : P \in (SUBSET Progressions) \ {{}} }

\* df_slopes['q'].values as a set
QValues(df) == { p[2] : p \in DOMAIN df }

\* the rows of one q
Group(df, qq) == { p \in DOMAIN df : p[2] = qq }

RECURSIVE SumBeta(_, _)
SumBeta(df, rows) ==
    IF rows = {} THEN 0
    ELSE LET r == CHOOSE x \in rows : TRUE
         IN  df[r] + SumBeta(df, rows \ {r})

\* one aggregate of a group: q, the count of its rows and the sum of beta
\* (mean = sum / count)
Aggregate(df, qq) ==
    [q |-> qq, count |-> Cardinality(Group(df, qq)),
     sum |-> SumBeta(df, Group(df, qq))]

\* generate_figures.py 78: beta_by_q[beta_by_q['count'] >= 3]
Figure3Keeps(agg) == agg.count >= 3

\* generate_figures.py 77-80: the aggregates handed to create_figure_3
Figure3(df) ==
    { agg \in { Aggregate(df, qq) : qq \in QValues(df) } : Figure3Keeps(agg) }

\* generate_figures.py 103-110: the bars of the right panel that are a
\* number (the q of q_values that no row has get NaN)
Figure4QValues == {4, 8, 12, 16, 20, 29}

Figure4(df) == { Aggregate(df, qq) : qq \in Figure4QValues \cap QValues(df) }

\* generate_figures.py 144-148: the groups collected for the top panel
Figure5Groups(df) ==
    { agg \in { Aggregate(df, qq) : qq \in QValues(df) } : agg.count >= 2 }

\* generate_figures.py 156: (beta_means > -0.5) & (beta_means < 1.5)
InMask(agg) == 2 * agg.sum > 0 - agg.count /\ 2 * agg.sum < 3 * agg.count

\* generate_figures.py 150-167: the points of the error-bar plot
Figure5(df) == { agg \in Figure5Groups(df) : InMask(agg) }

\* generate_figures.py 165: stats.linregress raises ValueError on empty input
Figure5Raises(df) == Figure5Groups(df) # {} /\ Figure5(df) = {}

(***************************************************************************)
(* generate_figures.main (generate_figures.py 18-221), as one call on the   *)
(* files of data/processed.                                                 *)
(***************************************************************************)
FigureFiles(k) ==
    CASE k = 1 -> {"figure1_evolution_Rn.pdf", "figure1_evolution_Rn.png"}
      [] k = 2 -> {"figure2_distribution_delta.pdf", "figure2_distribution_delta.png"}
      [] k = 3 -> {"figure3_scaling_beta_q.pdf", "figure3_scaling_beta_q.png"}
      [] k = 4 -> {"figure4_rmt_comparison.pdf", "figure4_rmt_comparison.png"}
      [] k = 5 -> {"figure5_scaling_complete.pdf", "figure5_scaling_complete.png"}
      [] k = 6 -> {"all_figures.pdf"}

NoFigures ==
    [outcome |-> "not run", message |-> "",
     rebound_files |-> <<>>, slope_files |-> <<>>,
     latest_rebounds |-> <<>>, latest_slopes |-> <<>>,
     pub_dir |-> FALSE, saved |-> {},
     fig3 |-> {}, fig4 |-> {}, fig5 |-> {}]

\* generate_figures.py 39-40: files[-1]
Latest(files) == files[Len(files)]

\* generate_figures.py 34, with "and" for "or"
MissingBoth(rebound_files, slope_files) ==
    rebound_files = <<>> /\ slope_files = <<>>

\* generate_figures.py 34: not rebound_files or not slope_files
Missing(rebound_files, slope_files) ==
    rebound_files = <<>> \/ slope_files = <<>>

generate_figures_main(rebounds, slopes) ==
    LET rebound_files == Sorted(DOMAIN rebounds)
        slope_files == Sorted(DOMAIN slopes)
        listed == [NoFigures EXCEPT !.rebound_files = rebound_files,
                                    !.slope_files = slope_files]
    IN  IF Missing(rebound_files, slope_files)
        THEN [listed EXCEPT !.outcome = "returned",
                !.message = "No data files found. Run run_analysis.py first."]
        ELSE IF rebound_files = <<>> \/ slope_files = <<>>
        THEN [listed EXCEPT !.outcome = "IndexError"]    \* files[-1] of []
        ELSE
        LET df == slopes[Latest(slope_files)].table
            loaded == [listed EXCEPT
                          !.latest_rebounds = Latest(rebound_files),
                          !.latest_slopes = Latest(slope_files),
                          !.pub_dir = TRUE,
                          !.fig3 = Figure3(df),
                          !.fig4 = Figure4(df)]
            first4 == FigureFiles(1) \cup FigureFiles(2) \cup FigureFiles(3)
                          \cup FigureFiles(4)
        IN  IF Figure5Raises(df)
            THEN [loaded EXCEPT !.outcome = "ValueError", !.saved = first4]
            ELSE [loaded EXCEPT !.outcome = "done",
                                !.fig5 = Figure5(df),
                                !.saved = first4 \cup FigureFiles(5) \cup FigureFiles(6)]

(***************************************************************************)
(* run_analysis.main (run_analysis.py 34-148), step by step.  The modules   *)
(* analysis, progression_analysis, rmt_simulation and plotting are not part *)
(* of the sources: of their results the model keeps the slopes table only.  *)
(***************************************************************************)
\* max_terms of the two fetches (run_analysis.py 51-52)
TermLimit == 200

\* what the two GETs of a run may do
RunResponses ==
    { [exc |-> "ConnectionError", status |-> 0, text |-> <<>>],
      [exc |-> "none", status |-> 200, text |-> <<LineData, LineSigned>>],
      [exc |-> "none", status |-> 200, text |-> <<LineComment, LineData>>],
      [exc |-> "none", status |-> 200, text |-> <<LineNonInt>>] }

\* the tables analyze_all_progressions may hand to the run
RunTables ==
    { [p \in {<<1, 4>>, <<3, 4>>} |-> 1],
      [p \in {<<1, 5>>, <<2, 5>>, <<3, 5>>} |-> IF p[1] = 2 THEN -1 ELSE 1] }

NoTime == [year |-> 2024, month |-> 1, day |-> 1, hour |-> 0, minute |-> 0,
           second |-> 0]

\* an unhandled exception ends the run: its locals are gone
Terminate ==
    /\ pc' = "idle"
    /\ timestamp' = <<>>
    /\ gaps' = <<>>
    /\ starts' = <<>>

\* run_analysis.py 40-45: the directories, then the timestamp of the run
StartRun ==
    /\ pc = "idle"
    /\ runs < MaxRuns
    /\ \E t \in Clock :              \* local wall-clock time: it may step back
          /\ now' = t
          /\ timestamp' = strftime(t)
    /\ runs' = runs + 1
    /\ pc' = "fetch"
    /\ UNCHANGED <<gaps, starts, fileVars, lastFig, sieveVars, progVars, fetchVars>>

\* run_analysis.py 51-56: the two fetches; starts[0], gaps[0] raise
\* IndexError on an empty list
FetchSequences ==
    /\ pc = "fetch"
    /\ \E r1 \in RunResponses, r2 \in RunResponses :
          LET g == fetch_oeis_sequence(5250, TermLimit, r1)
              st == fetch_oeis_sequence(101, TermLimit, r2)
          IN  IF g = <<>> \/ st = <<>>
              THEN Terminate
              ELSE /\ gaps' = g
                   /\ starts' = st
                   /\ pc' = "analyze"
                   /\ UNCHANGED timestamp
    /\ UNCHANGED <<now, runs, fileVars, lastFig, sieveVars, progVars, fetchVars>>

\* run_analysis.py 60-70: analyze_record_gaps(starts, gaps), then the
\* DataFrame of the columns n, p_n, g_n, R_n, which raises ValueError when
\* the columns differ in length, then record_gaps_<timestamp>.csv
AnalyzeRecords ==
    /\ pc = "analyze"
    /\ IF Len(starts) # Len(gaps)
       THEN Terminate /\ UNCHANGED rawFiles
       ELSE /\ rawFiles' = WriteFile(rawFiles, FileName(timestamp),
                              [time |-> now, p_n |-> starts, g_n |-> gaps])
            /\ pc' = "rebounds"
            /\ UNCHANGED <<timestamp, gaps, starts>>
    /\ UNCHANGED <<now, runs, reboundFiles, slopeFiles, lastFig, sieveVars,
                   progVars, fetchVars>>

\* run_analysis.py 74-78: rebounds_<timestamp>.csv
WriteRebounds ==
    /\ pc = "rebounds"
    /\ reboundFiles' = WriteFile(reboundFiles, FileName(timestamp), [time |-> now])
    /\ pc' = "progressions"
    /\ UNCHANGED <<now, runs, timestamp, gaps, starts, rawFiles, slopeFiles,
                   lastFig, sieveVars, progVars, fetchVars>>

\* run_analysis.py 88-92: progression_slopes_<timestamp>.csv
WriteSlopes ==
    /\ pc = "progressions"
    /\ \E table \in RunTables :
          slopeFiles' = WriteFile(slopeFiles, FileName(timestamp),
                                  [time |-> now, table |-> table])
    /\ pc' = "finish"
    /\ UNCHANGED <<now, runs, timestamp, gaps, starts, rawFiles, reboundFiles,
                   lastFig, sieveVars, progVars, fetchVars>>

\* run_analysis.py 88: analyze_all_progressions raises (the sieve of 10**8
\* numbers runs out of memory, the user interrupts the minutes it takes)
ProgressionsRaise ==
    /\ pc = "progressions"
    /\ Terminate
    /\ UNCHANGED <<now, runs, fileVars, lastFig, sieveVars, progVars, fetchVars>>

\* run_analysis.py 96-148: simulations, figures, summary; main returns
FinishRun ==
    /\ pc = "finish"
    /\ Terminate
    /\ UNCHANGED <<now, runs, fileVars, lastFig, sieveVars, progVars, fetchVars>>

\* one call of generate_figures.main, between pipeline runs
GenerateFigures ==
    /\ pc = "idle"
    /\ lastFig' = generate_figures_main(reboundFiles, slopeFiles)
    /\ UNCHANGED <<runVars, fileVars, sieveVars, progVars, fetchVars>>

(***************************************************************************)
(* Idle values of each component's variables.                             *)
(***************************************************************************)
SieveIdle == limit = 0 /\ sieveDone = FALSE /\ sieveOut = <<>>
ProgIdle  == primes = <<>> /\ a = 0 /\ q = 1 /\ progDone = FALSE /\ progOut = <<>>
FetchIdle ==
    /\ seq_id = 0 /\ max_terms = 0 /\ fetchDone = FALSE /\ fetchOut = <<>>
    /\ response = [exc |-> "none", status |-> 0, text |-> <<>>]
RunIdle ==
    /\ pc = "idle" /\ now = NoTime /\ runs = 0
    /\ timestamp = <<>> /\ gaps = <<>> /\ starts = <<>>
NoData == rawFiles = NoFiles /\ reboundFiles = NoFiles /\ slopeFiles = NoFiles
PipelineIdle == RunIdle /\ NoData /\ lastFig = NoFigures

(***************************************************************************)
(* SpecSieve: one call of sieve_of_eratosthenes on any limit.              *)
(***************************************************************************)
InitSieve ==
    /\ limit \in (0 - MinLimit)..MaxLimit
    /\ sieveDone = FALSE
    /\ sieveOut = <<>>
    /\ ProgIdle
    /\ FetchIdle
    /\ PipelineIdle

CallSieve ==
    /\ ~sieveDone
    /\ sieveDone' = TRUE
    /\ sieveOut' = sieve_of_eratosthenes(limit)
    /\ UNCHANGED <<limit, progVars, fetchVars, runVars, fileVars, lastFig>>

NextSieve == CallSieve

SpecSieve == InitSieve /\ [][NextSieve]_vars

(***************************************************************************)
(* SpecProgression: one call of primes_in_progression on any list.        *)
(***************************************************************************)
InitProgression ==
    /\ primes \in SeqsUpTo(-2..MaxElem, MaxPrimesLen)
    /\ q \in 1..MaxQ
    /\ a \in -1..MaxQ
    /\ progDone = FALSE
    /\ progOut = <<>>
    /\ SieveIdle
    /\ FetchIdle
    /\ PipelineIdle

CallProgression ==
    /\ ~progDone
    /\ progDone' = TRUE
    /\ progOut' = primes_in_progression(primes, a, q)
    /\ UNCHANGED <<primes, a, q, sieveVars, fetchVars, runVars, fileVars, lastFig>>

NextProgression == CallProgression

SpecProgression == InitProgression /\ [][NextProgression]_vars

(***************************************************************************)
(* SpecFetch: one call of fetch_oeis_sequence, on any sequence id, term    *)
(* limit and outcome of the GET.                                           *)
(***************************************************************************)
InitFetch ==
    /\ seq_id \in SeqIds
    /\ max_terms \in 0..MaxTerms
    /\ response \in Responses
    /\ fetchDone = FALSE
    /\ fetchOut = <<>>
    /\ SieveIdle
    /\ ProgIdle
    /\ PipelineIdle

CallFetch ==
    /\ ~fetchDone
    /\ fetchDone' = TRUE
    /\ fetchOut' = fetch_oeis_sequence(seq_id, max_terms, response)
    /\ UNCHANGED <<seq_id, max_terms, response, sieveVars, progVars, runVars,
                   fileVars, lastFig>>

NextFetch == CallFetch

SpecFetch == InitFetch /\ [][NextFetch]_vars

(***************************************************************************)
(* SpecPipeline: pipeline runs, each to its end or to an unhandled         *)
(* exception, and calls of the figure script between them.                 *)
(***************************************************************************)
InitPipeline == SieveIdle /\ ProgIdle /\ FetchIdle /\ PipelineIdle

NextPipeline ==
    \/ StartRun
    \/ FetchSequences
    \/ AnalyzeRecords
    \/ WriteRebounds
    \/ WriteSlopes
    \/ ProgressionsRaise
    \/ FinishRun
    \/ GenerateFigures

SpecPipeline == InitPipeline /\ [][NextPipeline]_vars

(***************************************************************************)
(* SpecFigures: one call of the figure script on a data/processed that      *)
(* holds one rebounds file and one slopes file, with any slopes table.      *)
(***************************************************************************)
InitFigures ==
    /\ SieveIdle /\ ProgIdle /\ FetchIdle /\ RunIdle
    /\ rawFiles = NoFiles
    /\ reboundFiles = WriteFile(NoFiles, FileName(strftime(NoTime)), [time |-> NoTime])
    /\ \E table \in Tables :
          slopeFiles = WriteFile(NoFiles, FileName(strftime(NoTime)),
                                 [time |-> NoTime, table |-> table])
    /\ lastFig = NoFigures

NextFigures == lastFig = NoFigures /\ GenerateFigures

SpecFigures == InitFigures /\ [][NextFigures]_vars

(***************************************************************************)
(* C1: for every limit, sieve_of_eratosthenes(limit) is exactly the primes *)
(* p with 2 <= p <= limit, each once, strictly increasing; it is empty for *)
(* limit < 2, and for limit = 30 it is <<2,3,5,7,11,13,17,19,23,29>>.      *)
(***************************************************************************)
IsPrime(p) == p >= 2 /\ \A d \in 2..(p - 1) : p % d # 0

StrictlyIncreasing(s) == \A i \in 1..(Len(s) - 1) : s[i] < s[i + 1]

C1_SieveCorrect ==
    sieveDone =>
        /\ Range(sieveOut) = { p \in 2..limit : IsPrime(p) }
        /\ StrictlyIncreasing(sieveOut)
        /\ (limit < 2 => sieveOut = <<>>)
        /\ (limit = 30 => sieveOut = <<2, 3, 5, 7, 11, 13, 17, 19, 23, 29>>)

\* the sieve ran on limit = 30 and crossed out odd composites
C1_Witness == sieveDone /\ limit = 30 /\ Len(sieveOut) = 10

(***************************************************************************)
(* C2: primes_in_progression(primes, a, q) with q >= 1 returns only values *)
(* p with p % q = a, returns every such element of primes, in input order  *)
(* (so it is empty when a < 0 or a >= q).                                  *)
(***************************************************************************)
\* t is s with the positions outside keep dropped, order kept
IsSelection(t, s, keep) ==
    \E f \in [1..Len(t) -> 1..Len(s)] :
        /\ \A i \in 1..Len(t) : t[i] = s[f[i]]
        /\ \A i \in 1..(Len(t) - 1) : f[i] < f[i + 1]
        /\ { f[i] : i \in 1..Len(t) } = keep

C2_ProgressionFilter ==
    progDone =>
        /\ \A i \in 1..Len(progOut) : progOut[i] % q = a
        /\ IsSelection(progOut, primes, { i \in 1..Len(primes) : primes[i] % q = a })
        /\ (a < 0 \/ a >= q => progOut = <<>>)

\* a call that both kept and dropped elements, one of them negative
C2_Witness ==
    /\ progDone
    /\ Len(progOut) >= 2
    /\ Len(progOut) < Len(primes)
    /\ \E i \in 1..Len(primes) : primes[i] < 0

(***************************************************************************)
(* C3: when the request inside fetch_oeis_sequence fails (connection       *)
(* error, timeout, or a status outside 200..299), the call returns the     *)
(* built-in fallback table of seq_id: the fixed 20-element list for 5250,  *)
(* the fixed starting-prime list for 101, the empty list otherwise.        *)
(***************************************************************************)
FallbackTableOf(id) ==
    CASE id = 5250 ->
           <<1, 2, 4, 6, 8, 14, 18, 20, 22, 34, 36, 44, 52, 72, 86, 96, 112,
             114, 118, 132>>
      [] id = 101 ->
           <<2, 3, 7, 23, 89, 113, 523, 887, 1129, 1327, 9551, 15683, 19609,
             31397, 155921>>
      [] OTHER -> <<>>

C3_FallbackOnFailure ==
    (fetchDone /\ (response.exc # "none" \/ response.status \notin 200..299))
        => fetchOut = FallbackTableOf(seq_id)

(***************************************************************************)
(* The terms a body parses into, as C4 speaks of them: the second fields   *)
(* int() reads, of the lines that are no '#' comment, in order.            *)
(***************************************************************************)
Contributes(line) ==
    /\ ~StartsWithHash(line)
    /\ Len(Split(line)) >= 2
    /\ IsIntLiteral(Split(line)[2])

TermsOf(lines) ==
    LET sel == SelectSeq(lines, Contributes)
    IN  [i \in 1..Len(sel) |-> IntValue(Split(sel[i])[2])]

IsPrefix(s, t) == Len(s) <= Len(t) /\ s = SubSeq(t, 1, Len(s))

\* a 2xx answer with data lines, none of which parses into a term
ParseFailure(resp) ==
    /\ resp.exc = "none"
    /\ resp.status \in 200..299
    /\ TermsOf(StripSplit(resp.text)) = <<>>
    /\ \E i \in 1..Len(resp.text) :
          ~IsBlank(resp.text[i]) /\ ~StartsWithHash(resp.text[i])

(***************************************************************************)
(* C4: a 2xx response whose body cannot be parsed into terms makes         *)
(* fetch_oeis_sequence return the fallback table of seq_id.                *)
(***************************************************************************)
C4_ParseFailureFallsBack ==
    (fetchDone /\ ParseFailure(response)) => fetchOut = FallbackTableOf(seq_id)

(***************************************************************************)
(* C5: for every seq_id and max_terms >= 0 the list fetch_oeis_sequence    *)
(* returns has at most max_terms elements, from the network or from the    *)
(* fallback table.                                                         *)
(***************************************************************************)
C5_TermCountBounded ==
    (fetchDone /\ max_terms >= 0) => Len(fetchOut) <= max_terms

(***************************************************************************)
(* C6: in a successful response a '#' comment, a line of fewer than two    *)
(* fields and a line whose second field is no integer contribute nothing   *)
(* and do not abort the parse: the result is the in-order list of the      *)
(* integer second fields of the other lines, up to the term limit.         *)
(* The fields of a line and the integer a field writes are stated here by  *)
(* position and by decimal notation, apart from Split and IntValue.        *)
(***************************************************************************)
\* the positions where a field of the line begins
FieldStarts(line) ==
    { i \in 1..Len(line) :
        ~IsSpace(line[i]) /\ (i = 1 \/ IsSpace(line[i - 1])) }

\* the second field of a line of two fields or more
SecondField(line) ==
    LET from == Least(FieldStarts(line) \ {Least(FieldStarts(line))})
        blanks == { j \in (from + 1)..Len(line) : IsSpace(line[j]) }
        to == IF blanks = {} THEN Len(line) ELSE Least(blanks) - 1
    IN  SubSeq(line, from, to)

\* the field writes an integer: an optional sign, then decimal digits, where
\* an underscore may stand between two digits
WritesInteger(tok) ==
    LET from == IF tok # <<>> /\ tok[1] \in {43, 45} THEN 2 ELSE 1
    IN  /\ from <= Len(tok)
        /\ \A i \in from..Len(tok) :
              \/ tok[i] \in Digits
              \/ /\ tok[i] = 95
                 /\ i > from /\ i < Len(tok)
                 /\ tok[i - 1] \in Digits /\ tok[i + 1] \in Digits

\* the decimal digits of n >= 0, the most significant first
RECURSIVE Decimal(_)
Decimal(n) == IF n < 10 THEN <<n>> ELSE Append(Decimal(n \div 10), n % 10)

\* the field writes the integer v: its digits, after any leading zeros, are
\* the decimal digits of |v|, and it has a '-' exactly when v is negative
Writes(tok, v) ==
    LET IsDigit(c) == c \in Digits
        ds == SelectSeq(tok, IsDigit)
        abs == IF v < 0 THEN 0 - v ELSE v
    IN  /\ (v < 0 => tok[1] = 45)
        /\ (v > 0 => tok[1] # 45)
        /\ \E k \in 0..(Len(ds) - 1) :
              /\ \A i \in 1..k : DigitVal(ds[i]) = 0
              /\ Len(ds) - k = Len(Decimal(abs))
              /\ \A i \in 1..(Len(ds) - k) :
                    DigitVal(ds[k + i]) = Decimal(abs)[i]

\* the line is no comment and its second field is an integer
HasIntegerField(line) ==
    /\ ~(line # <<>> /\ line[1] = 35)
    /\ Cardinality(FieldStarts(line)) >= 2
    /\ WritesInteger(SecondField(line))

C6_MalformedSkipped ==
    (fetchDone /\ ~TryRaises(response)) =>
        LET kept == SelectSeq(StripSplit(response.text), HasIntegerField)
            n == IF Len(kept) < max_terms THEN Len(kept) ELSE max_terms
        IN  /\ Len(fetchOut) = n
            /\ \A i \in 1..n : Writes(SecondField(kept[i]), fetchOut[i])

(***************************************************************************)
(* A call of generate_figures.main: the only step that changes lastFig     *)
(* (every call records the two directory listings it saw).                 *)
(***************************************************************************)
FiguresCall == pc = "idle" /\ lastFig' # lastFig

(***************************************************************************)
(* C7: when data/processed holds no rebounds_*.csv or no                   *)
(* progression_slopes_*.csv, the figure script prints a message and        *)
(* returns normally: it reads no CSV, does not create figures/publication  *)
(* and writes no figure file.                                              *)
(***************************************************************************)
C7_MissingFilesAbort ==
    [][(FiguresCall /\ (DOMAIN reboundFiles = {} \/ DOMAIN slopeFiles = {}))
         => /\ lastFig'.outcome = "returned"
            /\ lastFig'.message = "No data files found. Run run_analysis.py first."
            /\ lastFig'.latest_rebounds = <<>>
            /\ lastFig'.latest_slopes = <<>>
            /\ ~lastFig'.pub_dir
            /\ lastFig'.saved = {}]_vars

\* the script was called on a directory with a rebounds file and no slopes
\* file, and returned with the message
C7_Witness ==
    /\ lastFig.outcome = "returned"
    /\ lastFig.rebound_files # <<>>
    /\ lastFig.slope_files = <<>>
    /\ DOMAIN slopeFiles = {}

(***************************************************************************)
(* C8: every per-q aggregate of beta that the figure script computes from  *)
(* the slopes table and plots comes from a q group of at least 3 rows.     *)
(***************************************************************************)
RowsOfQ(table, qq) == { p \in DOMAIN table : p[2] = qq }

C8_AggregatesNeedThreeRows ==
    lastFig.outcome \in {"done", "ValueError"} =>
        \A agg \in lastFig.fig3 \cup lastFig.fig4 \cup lastFig.fig5 :
            Cardinality(RowsOfQ(slopeFiles[lastFig.latest_slopes].table, agg.q)) >= 3

(***************************************************************************)
(* C9: whenever the figure script loads data, it loads for rebounds and    *)
(* for progression slopes the file whose run timestamp is the latest among *)
(* the files of that kind in data/processed.                               *)
(***************************************************************************)
IsLatestOf(name, files) ==
    /\ name \in DOMAIN files
    /\ \A n \in DOMAIN files : ~TimeBefore(files[name].time, files[n].time)

C9_LoadsMostRecent ==
    [][(FiguresCall /\ DOMAIN reboundFiles # {} /\ DOMAIN slopeFiles # {})
         => /\ IsLatestOf(lastFig'.latest_rebounds, reboundFiles)
            /\ IsLatestOf(lastFig'.latest_slopes, slopeFiles)]_vars

\* two completed runs, in September and in October: the October files load
C9_Witness ==
    /\ lastFig.outcome = "done"
    /\ Len(lastFig.rebound_files) = 2
    /\ Len(lastFig.slope_files) = 2
    /\ reboundFiles[lastFig.rebound_files[1]].time.month = 9
    /\ reboundFiles[lastFig.latest_rebounds].time.month = 10
    /\ slopeFiles[lastFig.latest_slopes].time.month = 10

(***************************************************************************)
(* C10: in every pipeline run, whatever the two fetches end in, the gaps   *)
(* list and the starts list passed to analyze_record_gaps have the same    *)
(* length.                                                                 *)
(***************************************************************************)
C10_OneRecordPerPosition ==
    pc = "analyze" => Len(gaps) = Len(starts)

(***************************************************************************)
(* C11: after any sequence of pipeline runs, runs ended by an unhandled    *)
(* exception included, the rebounds CSV and the progression-slopes CSV     *)
(* that the figure script loads together carry the same run timestamp.     *)
(***************************************************************************)
C11_LoadedFilesOfOneRun ==
    lastFig.latest_rebounds # <<>> =>
        /\ lastFig.latest_rebounds = lastFig.latest_slopes
        /\ reboundFiles[lastFig.latest_rebounds].time
              = slopeFiles[lastFig.latest_slopes].time

=============================================================================
